---- MODULE Spec2Model ----
(***************************************************************************)
(* Subscription polling / incremental-fetch reconciliation of the Twitter  *)
(* agent backend: TwitterService.processSubscriptionTweets (reconcileOne), *)
(* TwitterService.processAllUserSubscriptions (reconcileAllForUser), the   *)
(* cron sweep (reconcileAllEligible), the manual refresh route, the       *)
(* subscription and post routes and the refresh-and-summarize route, over  *)
(* the Post and Subscription collections.                                  *)
(*                                                                         *)
(* Every await of the source is one step of the thread that executes it;   *)
(* the steps of different threads interleave freely, as the event loop     *)
(* lets them.  Time is in minutes.                                         *)
(***************************************************************************)
EXTENDS Integers, Sequences, FiniteSets, TLC

\* ------------------------------------------------------------------ bounds
NumTweets == 2      \* remote posts the target account may publish
MaxTicks == 1       \* clock advances in one behaviour
MaxManual == 1      \* manual refresh requests racing the sweep
MaxCalls == 2       \* manual refresh requests made one after the other
MaxSweeps == 1      \* scheduler ticks in one behaviour
MaxRequests == 4    \* create, delete and mark-read requests in one behaviour

\* ------------------------------------------------------- program constants
MaxResults == 50            \* maxResults passed by processSubscriptionTweets
ApiLimit == 100             \* Math.min(maxResults, 100)
MsPerMinute == 60 * 1000    \* checkInterval * 60 * 1000
DefaultInterval == 60       \* SubscriptionSchema.checkInterval default
MinInterval == 15           \* SubscriptionSchema.checkInterval min
MaxInterval == 1440         \* SubscriptionSchema.checkInterval max
RecentLimit == 20           \* .limit(20) of the recent posts query

VARIABLES
    now,        \* the wall clock (Date.now(), new Date()), minutes
    ticks,      \* number of clock advances so far
    published,  \* remote timeline: tweet id -> created_at, -1 = not published
    subs,       \* Subscription collection: id -> document
    posts,      \* Post collection, in insertion order
    rec,        \* per thread: the frame of processSubscriptionTweets
    manual,     \* POST /api/subscriptions/:id/refresh handler
    batch,      \* the frame of processAllUserSubscriptions
    cron,       \* the cron.schedule callback
    source,     \* the Post-Source: whether it honours the exclude parameter
    prev,       \* history: the previous manual refresh that ran to its end
    users,      \* User collection: id -> document
    api         \* POST /api/subscriptions handlers and the request count

vars == <<now, ticks, published, subs, posts, rec, manual, batch, cron,
          source, prev, users, api>>

Users == {"u1", "u2"}
UserOrder == <<"u1", "u2">>
SubIds == 1..3
TweetIds == 1..NumTweets
Threads == {"cron", "manual"}
NoTime == 0 - 1

\* --------------------------------------------------------- remote posts
\* id of the post the first "retweeted" reference of t points to.
RefId(t) == t + 100

\* TweetData.referenced_tweets, an array of { type, id }: every third post
\* is a reply, every third a retweet, and every sixth carries a quoted
\* reference and two retweeted references.
ReferencedTweets(t) ==
    IF t % 3 = 2 THEN << [type |-> "replied_to", id |-> t + 200] >>
    ELSE IF t % 6 = 0 THEN << [type |-> "quoted", id |-> t + 200],
                              [type |-> "retweeted", id |-> RefId(t)],
                              [type |-> "retweeted", id |-> t + 300] >>
    ELSE IF t % 3 = 0 THEN << [type |-> "retweeted", id |-> RefId(t)] >>
    ELSE << >>

\* The relation types of the remote post.
RefTypes(t) ==
    {ReferencedTweets(t)[k].type : k \in DOMAIN ReferencedTweets(t)}

\* referenced_tweets?.some(ref => ref.type === type) || false
SomeRef(t, type) ==
    \E k \in DOMAIN ReferencedTweets(t) : ReferencedTweets(t)[k].type = type

\* referenced_tweets?.find(ref => ref.type === type): the first such entry.
FindRef(t, type) ==
    LET ks == {k \in DOMAIN ReferencedTweets(t) : ReferencedTweets(t)[k].type = type}
    IN ReferencedTweets(t)[CHOOSE k \in ks : \A j \in ks : k <= j]

\* Array.prototype.findLast in the place of find.
FindLastRef(t, type) ==
    LET ks == {k \in DOMAIN ReferencedTweets(t) : ReferencedTweets(t)[k].type = type}
    IN ReferencedTweets(t)[CHOOSE k \in ks : \A j \in ks : k >= j]

\* TweetData.text, a sequence of characters.
TweetText(t) ==
    IF t % 3 = 1 THEN <<"a", "x", "B">>
    ELSE IF t % 3 = 2 THEN <<"A", "b">>
    ELSE <<"b", "a">>

\* Every remote post of the model is authored by the account "acme".
Author(t) == "acme"

\* ------------------------------------------------------- keyword filter
\* Case folding of the 'i' flag.
Lower(c) == IF c = "A" THEN "a" ELSE IF c = "B" THEN "b" ELSE c

\* keywords.join('|')
RECURSIVE JoinKeywords(_)
JoinKeywords(kws) ==
    IF Len(kws) = 0 THEN <<>>
    ELSE IF Len(kws) = 1 THEN kws[1]
    ELSE kws[1] \o <<"|">> \o JoinKeywords(Tail(kws))

\* The alternatives of a pattern: the pieces between '|'.
RECURSIVE Alternatives(_)
Alternatives(pat) ==
    IF \A i \in 1..Len(pat) : pat[i] # "|" THEN {pat}
    ELSE LET k == CHOOSE i \in 1..Len(pat) :
                      pat[i] = "|" /\ \A j \in 1..(i - 1) : pat[j] # "|"
         IN {SubSeq(pat, 1, k - 1)} \cup Alternatives(SubSeq(pat, k + 1, Len(pat)))

\* One pattern atom against one character: '.' matches any character,
\* any other atom matches itself, ignoring case.
AtomMatches(a, c) == a = "." \/ Lower(a) = Lower(c)

\* An alternative matches at position i of the text.
MatchesAt(alt, text, i) ==
    /\ i + Len(alt) - 1 <= Len(text)
    /\ \A j \in 1..Len(alt) : AtomMatches(alt[j], text[i + j - 1])

\* new RegExp(pattern, 'i').test(text)
RegexTest(pat, text) ==
    \E alt \in Alternatives(pat) :
        \E i \in 1..(Len(text) + 1) : MatchesAt(alt, text, i)

\* The keyword step of getUserTweets.
KeywordFilter(kws, t) ==
    IF Len(kws) > 0 THEN RegexTest(JoinKeywords(kws), TweetText(t)) ELSE TRUE

\* ------------------------------------------------------------ the source
\* exclude parameter built from the include flags.
ExcludeTypes(includeReplies, includeRetweets) ==
    (IF ~includeReplies THEN {"replies"} ELSE {})
        \cup (IF ~includeRetweets THEN {"retweets"} ELSE {})

\* A post the source leaves out when it honours the exclude parameter.
Excluded(t, excl) ==
    \/ "replies" \in excl /\ "replied_to" \in RefTypes(t)
    \/ "retweets" \in excl /\ "retweeted" \in RefTypes(t)

Min(a, b) == IF a <= b THEN a ELSE b

\* t is at least as new as u in the timeline order (newest first).
NewerEq(t, u) ==
    published[t] > published[u] \/ (published[t] = published[u] /\ t >= u)

\* One page of at most n posts, the newest ones: those with fewer than n
\* newer posts in S.
Page(S, n) ==
    {t \in S : Cardinality({u \in S : u # t /\ NewerEq(u, t)}) < n}

\* v2.userTimeline(userId, params): the posts of the account created at or
\* after start_time.  A source that does not honour the exclude parameter
\* returns posts of an excluded type all the same.
UserTimeline(target, startTime, excl, maxResults) ==
    Page({t \in DOMAIN published : /\ published[t] # NoTime
                                  /\ Author(t) = target
                                  /\ published[t] >= startTime
                                  /\ (source.honoursExclude => ~Excluded(t, excl))},
         maxResults)

\* getUserTweets: the timeline page, filtered by the keywords.
GetUserTweets(sub) ==
    {t \in UserTimeline(sub.targetUsername, sub.lastChecked,
                        ExcludeTypes(sub.includeReplies, sub.includeRetweets),
                        Min(MaxResults, ApiLimit)) :
        KeywordFilter(sub.keywords, t)}

\* The next post of the for-loop: the newest of those left.
NextTweet(S) == CHOOSE t \in S : \A u \in S : NewerEq(t, u)

\* ------------------------------------------------------------ the stores
FindPostNever(id) == FALSE

\* Post.findOne({ tweetId })
FindPost(id) == \E i \in 1..Len(posts) : posts[i].tweetId = id

DuplicateKeyNoIndex(id) == FALSE

\* The unique index on PostSchema.tweetId rejects the insert.
DuplicateKey(id) == \E i \in 1..Len(posts) : posts[i].tweetId = id

\* new Post({...}) with the last "retweeted" reference as retweetedFrom.
NewPostLastRef(sub, t) ==
    [tweetId |-> t,
     subscriptionId |-> sub.id,
     userId |-> sub.userId,
     isReply |-> SomeRef(t, "replied_to"),
     isRetweet |-> SomeRef(t, "retweeted"),
     retweetedFrom |-> IF SomeRef(t, "retweeted")
                       THEN FindLastRef(t, "retweeted").id ELSE 0,
     isRead |-> FALSE]

\* isReply, isRetweet and retweetedFrom as processSubscriptionTweets derives
\* them, and new Post({...}); retweetedFrom 0 stands for undefined.
NewPost(sub, t) ==
    [tweetId |-> t,
     subscriptionId |-> sub.id,
     userId |-> sub.userId,
     isReply |-> SomeRef(t, "replied_to"),
     isRetweet |-> SomeRef(t, "retweeted"),
     retweetedFrom |-> IF SomeRef(t, "retweeted")
                       THEN FindRef(t, "retweeted").id ELSE 0,
     isRead |-> FALSE]

\* A Subscription document as a handler holds it in memory.
Snapshot(s) == [id |-> s] @@ subs[s]

NoSub ==
    [id |-> 0, userId |-> "u1", targetUsername |-> "", isActive |-> FALSE,
     checkInterval |-> DefaultInterval, lastChecked |-> 0, keywords |-> <<>>,
     includeReplies |-> FALSE, includeRetweets |-> FALSE]

\* The frame of one processSubscriptionTweets call.  lcStart, foreign, seen
\* and activeAtStart are history: the stored checkpoint when the call
\* started, whether another writer has written that checkpoint since, the
\* remote posts that existed when the timeline request was answered, and the
\* stored isActive when the call started.
IdleRec ==
    [pc |-> "none", sub |-> NoSub, tweets |-> {}, count |-> 0, stamp |-> 0,
     err |-> "none", lcStart |-> 0, foreign |-> FALSE, seen |-> {},
     activeAtStart |-> TRUE]

\* The call processSubscriptionTweets(subscription).
StartRec(sub) ==
    [IdleRec EXCEPT !.pc = "resolve", !.sub = sub,
                    !.lcStart = subs[sub.id].lastChecked,
                    !.activeAtStart = subs[sub.id].isActive]

PublishedSet == {t \in DOMAIN published : published[t] # NoTime}

\* ---------------------------------------------------------- environment
\* The clock advances.
Tick ==
    /\ ticks < MaxTicks
    /\ now' = now + 1
    /\ ticks' = ticks + 1
    /\ UNCHANGED <<published, subs, posts, rec, manual, batch, cron, source, prev, users, api>>

\* The target account publishes a post; its created_at is the current time.
Publish ==
    /\ \E t \in TweetIds :
          /\ published[t] = NoTime
          /\ published' = [published EXCEPT ![t] = now]
    /\ UNCHANGED <<now, ticks, subs, posts, rec, manual, batch, cron, source, prev, users, api>>

\* ------------------------------------------- processSubscriptionTweets
CurTweet(th) == NextTweet(rec[th].tweets)

\* The for-loop moves on: to the next post, or past the loop.
AfterItem(r, left) ==
    IF left = {} THEN [r EXCEPT !.tweets = left, !.pc = "stamp"]
    ELSE [r EXCEPT !.tweets = left, !.pc = "find"]

FailAdvancing(th, e) ==
    /\ rec' = [rec EXCEPT ![th].pc = "threw", ![th].err = e,
                           ![th].tweets = {}, ![th].stamp = 0]
    /\ subs' = [subs EXCEPT ![rec[th].sub.id].lastChecked = now]
    /\ UNCHANGED <<now, ticks, published, posts, manual, batch, cron, source, prev, users, api>>

\* The catch block: log and rethrow.
Fail(th, e) ==
    /\ rec' = [rec EXCEPT ![th].pc = "threw", ![th].err = e,
                           ![th].tweets = {}, ![th].stamp = 0]
    /\ UNCHANGED <<now, ticks, published, subs, posts, manual, batch, cron, source, prev, users, api>>

\* getUserByUsername resolves the target account.
ResolveOk(th) ==
    /\ rec[th].pc = "resolve"
    /\ rec' = [rec EXCEPT ![th].pc = "fetch"]
    /\ UNCHANGED <<now, ticks, published, subs, posts, manual, batch, cron, source, prev, users, api>>

\* getUserByUsername throws "User @x not found".
ResolveFails(th) ==
    /\ rec[th].pc = "resolve"
    /\ Fail(th, "AccountNotFound")

\* getUserTweets returns the filtered page.
FetchOk(th) ==
    /\ rec[th].pc = "fetch"
    /\ rec' = [rec EXCEPT ![th] = AfterItem([@ EXCEPT !.seen = PublishedSet],
                                            GetUserTweets(rec[th].sub))]
    /\ UNCHANGED <<now, ticks, published, subs, posts, manual, batch, cron, source, prev, users, api>>

\* The errors of the v2 client: a 429 response carries the rate limit of
\* the endpoint with its reset time, any other failure its own message.
ApiError429 ==
    [code |-> 429, message |-> "Request failed with code 429",
     rateLimit |-> [reset |-> now + 1]]

ApiError503 ==
    [code |-> 503, message |-> "Request failed with code 503"]

\* The catch block of getUserTweets: new Error(message) in both branches.
FetchError(error) ==
    IF error.code = 429
    THEN [message |-> "Rate limit exceeded. Please try again later."]
    ELSE [message |-> "Failed to fetch tweets: " \o error.message]

\* The Error object that reaches the caller of processSubscriptionTweets,
\* which rethrows what it caught.
Thrown(e) ==
    CASE e = "RateLimited" -> FetchError(ApiError429)
      [] e = "SourceUnavailable" -> FetchError(ApiError503)
      [] OTHER -> [message |-> e]

\* The source answers 429.
FetchRateLimited(th) ==
    /\ rec[th].pc = "fetch"
    /\ Fail(th, "RateLimited")

\* Any other failure of the timeline request.
FetchFails(th) ==
    /\ rec[th].pc = "fetch"
    /\ Fail(th, "SourceUnavailable")

\* Post.findOne({ tweetId }): found, continue with the next post; not found,
\* the post is built and post.save() is called.
FindOne(th) ==
    /\ rec[th].pc = "find"
    /\ rec' = [rec EXCEPT ![th] =
                  IF FindPost(CurTweet(th))
                  THEN AfterItem(@, rec[th].tweets \ {CurTweet(th)})
                  ELSE [@ EXCEPT !.pc = "save"]]
    /\ UNCHANGED <<now, ticks, published, subs, posts, manual, batch, cron, source, prev, users, api>>

\* Post.findOne rejects.
FindOneFails(th) ==
    /\ rec[th].pc = "find"
    /\ Fail(th, "StoreError")

CountedNot(r) == r

\* newTweetsCount++
Counted(r) == [r EXCEPT !.count = @ + 1]

\* post.save(): the unique index rejects the document (E11000), which the
\* catch block rethrows; or the document is inserted and newTweetsCount++.
Save(th) ==
    /\ rec[th].pc = "save"
    /\ IF DuplicateKey(CurTweet(th))
       THEN Fail(th, "DuplicateKey")
       ELSE /\ posts' = Append(posts, NewPost(rec[th].sub, CurTweet(th)))
            /\ rec' = [rec EXCEPT ![th] =
                          AfterItem(Counted(@),
                                    rec[th].tweets \ {CurTweet(th)})]
            /\ UNCHANGED <<now, ticks, published, subs, manual, batch, cron, source, prev, users, api>>

\* post.save() rejects for another reason.
SaveFails(th) ==
    /\ rec[th].pc = "save"
    /\ Fail(th, "StoreError")

\* The loop is over: new Date() is evaluated for the update.
Stamp(th) ==
    /\ rec[th].pc = "stamp"
    /\ rec' = [rec EXCEPT ![th].pc = "update", ![th].stamp = now]
    /\ UNCHANGED <<now, ticks, published, subs, posts, manual, batch, cron, source, prev, users, api>>

UpdateEvery(th) ==
    /\ rec[th].pc = "update"
    /\ subs' = [s \in DOMAIN subs |-> [subs[s] EXCEPT !.lastChecked = rec[th].stamp]]
    /\ rec' = [rec EXCEPT ![th].pc = "returned", ![th].stamp = 0]
    /\ UNCHANGED <<now, ticks, published, posts, manual, batch, cron, source, prev, users, api>>

\* Subscription.findByIdAndUpdate(_id, { lastChecked }) is applied.
UpdateOk(th) ==
    /\ rec[th].pc = "update"
    /\ subs' = [subs EXCEPT ![rec[th].sub.id].lastChecked = rec[th].stamp]
    /\ rec' = [o \in Threads |->
                 IF o = th THEN [rec[o] EXCEPT !.pc = "returned", !.stamp = 0]
                 ELSE IF rec[o].pc # "none" /\ rec[o].sub.id = rec[th].sub.id
                      THEN [rec[o] EXCEPT !.foreign = TRUE]
                      ELSE rec[o]]
    /\ UNCHANGED <<now, ticks, published, posts, manual, batch, cron, source, prev, users, api>>

\* Subscription.findByIdAndUpdate rejects.
UpdateFails(th) ==
    /\ rec[th].pc = "update"
    /\ Fail(th, "StoreError")

\* One step of processSubscriptionTweets in thread th.
RecStep(th) ==
    \/ ResolveOk(th) \/ ResolveFails(th)
    \/ FetchOk(th) \/ FetchRateLimited(th) \/ FetchFails(th)
    \/ FindOne(th) \/ FindOneFails(th)
    \/ Save(th) \/ SaveFails(th)
    \/ Stamp(th)
    \/ UpdateOk(th) \/ UpdateFails(th)

\* createForUser: the user exists and has twitterCredentials.
HasCredentials(u) == users[u].hasCredentials

\* ------------------------------- POST /api/subscriptions/:id/refresh
\* Subscription.findOne({ _id, userId }) finds the document.
ManualFind(u, s) ==
    /\ manual.pc = "idle"
    /\ manual.runs < manual.limit
    /\ s \in DOMAIN subs
    /\ subs[s].userId = u
    /\ manual' = [manual EXCEPT !.pc = "svc", !.sub = Snapshot(s)]
    /\ UNCHANGED <<now, ticks, published, subs, posts, rec, batch, cron, source, prev, users, api>>

\* Subscription.findOne finds nothing for this user: 404.
ManualNotFound(u, s) ==
    /\ manual.pc = "idle"
    /\ manual.runs < manual.limit
    /\ IF s \in DOMAIN subs THEN subs[s].userId # u ELSE TRUE
    /\ manual' = [manual EXCEPT !.runs = @ + 1]
    /\ UNCHANGED <<now, ticks, published, subs, posts, rec, batch, cron, source, prev, users, api>>

\* createForUser returns a service: processSubscriptionTweets is called.
ManualSvcOk ==
    /\ manual.pc = "svc"
    /\ HasCredentials(manual.sub.userId)
    /\ manual' = [manual EXCEPT !.pc = "rec"]
    /\ rec' = [rec EXCEPT !["manual"] = StartRec(manual.sub)]
    /\ UNCHANGED <<now, ticks, published, subs, posts, batch, cron, source, prev, users, api>>

\* createForUser returns null (no credentials, or a failure it caught): 400.
ManualSvcNull ==
    /\ manual.pc = "svc"
    /\ manual' = [manual EXCEPT !.pc = "idle", !.runs = @ + 1, !.sub = NoSub]
    /\ UNCHANGED <<now, ticks, published, subs, posts, rec, batch, cron, source, prev, users, api>>

\* processSubscriptionTweets has returned (200) or thrown (500): the
\* handler answers.
ManualEnd ==
    /\ manual.pc = "rec"
    /\ rec["manual"].pc \in {"returned", "threw"}
    /\ manual' = [manual EXCEPT !.pc = "idle", !.runs = @ + 1, !.sub = NoSub]
    /\ rec' = [rec EXCEPT !["manual"] = IdleRec]
    /\ UNCHANGED <<now, ticks, published, subs, posts, batch, cron, source, users, api>>

ManualRespond ==
    /\ ManualEnd
    /\ prev' = prev

\* The same step, with the call that ended recorded in the history.
ManualRespondSeq ==
    /\ ManualEnd
    /\ prev' = [sub |-> rec["manual"].sub.id,
                ok |-> rec["manual"].pc = "returned",
                seen |-> rec["manual"].seen,
                posts |-> posts,
                lc |-> rec["manual"].lcStart,
                count |-> rec["manual"].count]

\* --------------------------------------- processAllUserSubscriptions
\* Subscription.find({ userId, isActive: true }), in _id order.
RECURSIVE ActiveSubsFrom(_, _)
ActiveSubsFrom(u, s) ==
    IF s \notin SubIds THEN <<>>
    ELSE (IF s \in DOMAIN subs /\ subs[s].userId = u /\ subs[s].isActive
          THEN <<Snapshot(s)>> ELSE <<>>)
             \o ActiveSubsFrom(u, s + 1)

ActiveSubs(u) == ActiveSubsFrom(u, 1)

DueAlways(sub) == TRUE

\* timeSinceLastCheck >= checkIntervalMs
Due(sub) ==
    (now - sub.lastChecked) * MsPerMinute >= sub.checkInterval * 60 * 1000

\* The frame of one processAllUserSubscriptions call.  outcome, paused and
\* counts are history: what became of each subscription of the list, whether
\* this.delay ran since the last call ended, and the values the calls
\* returned.
IdleBatch ==
    [user |-> "u1", list |-> <<>>, si |-> 0, processed |-> 0, newTweets |-> 0,
     errors |-> <<>>, outcome |-> <<>>, paused |-> FALSE, counts |-> <<>>]

CurSub == batch.list[batch.si]

\* The subscription list is loaded.
BatchLoadOk ==
    /\ cron.pc = "load"
    /\ batch' = [IdleBatch EXCEPT !.user = cron.users[cron.ui],
                                  !.list = ActiveSubs(cron.users[cron.ui]),
                                  !.outcome = [i \in 1..Len(ActiveSubs(cron.users[cron.ui]))
                                                  |-> "none"],
                                  !.si = 1]
    /\ cron' = [cron EXCEPT !.pc = "sub"]
    /\ UNCHANGED <<now, ticks, published, subs, posts, rec, manual, source, prev, users, api>>

\* The subscription is due: processSubscriptionTweets is called.
BatchDue ==
    /\ cron.pc = "sub"
    /\ batch.si <= Len(batch.list)
    /\ Due(CurSub)
    /\ rec' = [rec EXCEPT !["cron"] = StartRec(CurSub)]
    /\ cron' = [cron EXCEPT !.pc = "rec"]
    /\ UNCHANGED <<now, ticks, published, subs, posts, manual, batch, source, prev, users, api>>

\* The subscription is not due yet: the loop goes on.
BatchNotDue ==
    /\ cron.pc = "sub"
    /\ batch.si <= Len(batch.list)
    /\ ~Due(CurSub)
    /\ batch' = [batch EXCEPT !.si = @ + 1, !.outcome[batch.si] = "notdue"]
    /\ UNCHANGED <<now, ticks, published, subs, posts, rec, manual, cron, source, prev, users, api>>

\* processSubscriptionTweets returned: newTweets += count; processed++.
BatchRecOk ==
    /\ cron.pc = "rec"
    /\ rec["cron"].pc = "returned"
    /\ batch' = [batch EXCEPT !.newTweets = @ + rec["cron"].count,
                              !.processed = @ + 1,
                              !.outcome[batch.si] = "ok",
                              !.paused = FALSE,
                              !.counts = Append(@, rec["cron"].count)]
    /\ rec' = [rec EXCEPT !["cron"] = IdleRec]
    /\ cron' = [cron EXCEPT !.pc = "sdelay"]
    /\ UNCHANGED <<now, ticks, published, subs, posts, manual, source, prev, users, api>>

BatchRecErrBreak ==
    /\ cron.pc = "rec"
    /\ rec["cron"].pc = "threw"
    /\ batch' = [batch EXCEPT
                   !.errors = Append(@, CurSub.targetUsername),
                   !.outcome[batch.si] = "err",
                   !.paused = FALSE,
                   !.si = Len(batch.list) + 1]
    /\ rec' = [rec EXCEPT !["cron"] = IdleRec]
    /\ cron' = [cron EXCEPT !.pc = "sub"]
    /\ UNCHANGED <<now, ticks, published, subs, posts, manual, source, prev, users, api>>

\* The catch block with processed++ added.
BatchRecErrCounted ==
    /\ cron.pc = "rec"
    /\ rec["cron"].pc = "threw"
    /\ batch' = [batch EXCEPT
                   !.errors = Append(@, CurSub.targetUsername),
                   !.outcome[batch.si] = "err",
                   !.paused = FALSE,
                   !.processed = @ + 1,
                   !.si = @ + 1]
    /\ rec' = [rec EXCEPT !["cron"] = IdleRec]
    /\ cron' = [cron EXCEPT !.pc = "sub"]
    /\ UNCHANGED <<now, ticks, published, subs, posts, manual, source, prev, users, api>>

\* processSubscriptionTweets threw: errors.push of the entry that names the
\* target (its message text is left out); the loop goes on.
BatchRecErr ==
    /\ cron.pc = "rec"
    /\ rec["cron"].pc = "threw"
    /\ batch' = [batch EXCEPT
                   !.errors = Append(@, CurSub.targetUsername),
                   !.outcome[batch.si] = "err",
                   !.paused = FALSE,
                   !.si = @ + 1]
    /\ rec' = [rec EXCEPT !["cron"] = IdleRec]
    /\ cron' = [cron EXCEPT !.pc = "sub"]
    /\ UNCHANGED <<now, ticks, published, subs, posts, manual, source, prev, users, api>>

\* this.delay(1000) is over.
BatchDelay ==
    /\ cron.pc = "sdelay"
    /\ batch' = [batch EXCEPT !.si = @ + 1, !.paused = TRUE]
    /\ cron' = [cron EXCEPT !.pc = "sub"]
    /\ UNCHANGED <<now, ticks, published, subs, posts, rec, manual, source, prev, users, api>>

\* ------------------------------------------------- cron.schedule callback
\* User.find({ isActive: true, twitterCredentials: { $exists: true } })
RECURSIVE ActiveUsersFrom(_)
ActiveUsersFrom(i) ==
    IF i > Len(UserOrder) THEN <<>>
    ELSE (IF users[UserOrder[i]].isActive /\ users[UserOrder[i]].hasCredentials
          THEN <<UserOrder[i]>> ELSE <<>>)
             \o ActiveUsersFrom(i + 1)

ActiveUsers == ActiveUsersFrom(1)

IdleCron ==
    [pc |-> "idle", users |-> <<>>, ui |-> 0, sweeps |-> 0,
     visited |-> [u \in Users |-> "none"], listed |-> FALSE,
     outcome |-> "none", second |-> [started |-> FALSE, users |-> <<>>]]

\* The for-loop over the users moves on, or the sweep goes on to its log.
NextUser(c) ==
    IF c.ui + 1 > Len(c.users) THEN [c EXCEPT !.ui = @ + 1, !.pc = "log"]
    ELSE [c EXCEPT !.ui = @ + 1, !.pc = "svc"]

\* The scheduler fires and the user list is loaded.
CronFire ==
    /\ cron.pc \in {"idle", "done"}
    /\ cron.sweeps < MaxSweeps
    /\ cron' = NextUser([IdleCron EXCEPT !.sweeps = cron.sweeps + 1,
                                         !.users = ActiveUsers,
                                         !.listed = TRUE])
    /\ UNCHANGED <<now, ticks, published, subs, posts, rec, manual, batch, source, prev, users, api>>

\* The scheduler fires while the callback it started before has not ended:
\* cron.schedule is called with the expression and the callback only, and
\* the callback tests no flag, so it is entered again and loads its own
\* user list.  cron.second is the frame of that execution; it runs the code
\* of the first from here on, and its further steps are not repeated.
CronFireOverlap ==
    /\ cron.pc \notin {"idle", "done"}
    /\ ~cron.second.started
    /\ cron' = [cron EXCEPT !.second = [started |-> TRUE, users |-> ActiveUsers]]
    /\ UNCHANGED <<now, ticks, published, subs, posts, rec, manual, batch, source, prev, users, api>>

\* The scheduler fires and User.find rejects: the outer catch logs.
CronListFails ==
    /\ cron.pc \in {"idle", "done"}
    /\ cron.sweeps < MaxSweeps
    /\ cron' = [IdleCron EXCEPT !.sweeps = cron.sweeps + 1, !.pc = "done",
                                !.outcome = "logged"]
    /\ UNCHANGED <<now, ticks, published, subs, posts, rec, manual, batch, source, prev, users, api>>

\* createForUser returns a service for the user.
CronSvcOk ==
    /\ cron.pc = "svc"
    /\ HasCredentials(cron.users[cron.ui])
    /\ cron' = [cron EXCEPT !.pc = "load"]
    /\ UNCHANGED <<now, ticks, published, subs, posts, rec, manual, batch, source, prev, users, api>>

\* createForUser catches its failure and returns null: the user is skipped.
CronSvcNull ==
    /\ cron.pc = "svc"
    /\ cron' = [cron EXCEPT !.pc = "udelay",
                            !.visited[cron.users[cron.ui]] = "nosvc"]
    /\ UNCHANGED <<now, ticks, published, subs, posts, rec, manual, batch, source, prev, users, api>>

UserCatchOuter(c) ==
    [c EXCEPT !.visited[c.users[c.ui]] = "threw", !.pc = "done",
              !.outcome = "logged"]

\* The per-user catch: the error is logged and pushed, the loop goes on.
UserCatch(c) ==
    NextUser([c EXCEPT !.visited[c.users[c.ui]] = "threw"])

\* Subscription.find of processAllUserSubscriptions rejects.
BatchLoadFails ==
    /\ cron.pc = "load"
    /\ cron' = UserCatch(cron)
    /\ UNCHANGED <<now, ticks, published, subs, posts, rec, manual, batch, source, prev, users, api>>

\* processAllUserSubscriptions returns (the totals the sweep adds up are
\* only logged and are left out).
BatchReturn ==
    /\ cron.pc = "sub"
    /\ batch.si > Len(batch.list)
    /\ cron' = [cron EXCEPT !.pc = "udelay",
                            !.visited[batch.user] = "batch"]
    /\ batch' = IdleBatch
    /\ UNCHANGED <<now, ticks, published, subs, posts, rec, manual, source, prev, users, api>>

\* The delay between users is over.
CronUserDelay ==
    /\ cron.pc = "udelay"
    /\ cron' = NextUser(cron)
    /\ UNCHANGED <<now, ticks, published, subs, posts, rec, manual, batch, source, prev, users, api>>

\* logActivity('system', 'posts_fetched', ...) and the closing log line.
CronLog ==
    /\ cron.pc = "log"
    /\ cron' = [cron EXCEPT !.pc = "done", !.outcome = "completed"]
    /\ UNCHANGED <<now, ticks, published, subs, posts, rec, manual, batch, source, prev, users, api>>

\* ------------------------------------------- POST /api/subscriptions
Handlers == {"h1", "h2"}

\* checkInterval is not in the request body.
Absent == 0

\* req.body of the create requests of the model: no optional field; the
\* shortest interval with a keyword and replies; the longest interval with
\* retweets; an interval below and one above the range.
Body(iv, kws, ir, irt) ==
    [checkInterval |-> iv, keywords |-> kws, includeReplies |-> ir,
     includeRetweets |-> irt]

Bodies ==
    {Body(Absent, <<>>, FALSE, FALSE),
     Body(MinInterval, << <<"a", ".", "b">> >>, TRUE, FALSE),
     Body(MaxInterval, <<>>, FALSE, TRUE),
     Body(MinInterval - 1, <<>>, FALSE, FALSE),
     Body(MaxInterval + 1, <<>>, FALSE, FALSE)}

InRangeAny(iv) == TRUE

\* min: 15, max: 1440
InRange(iv) == iv >= MinInterval /\ iv <= MaxInterval

\* body('checkInterval').optional().isInt({ min: 15, max: 1440 })
Validates(iv) == iv = Absent \/ InRange(iv)

\* The validators of SubscriptionSchema.checkInterval, run by save().
SchemaValid(iv) == InRange(iv)

\* The target accounts a request of the model names.
Targets == {"acme", "beta"}

\* const { checkInterval = 60 } = req.body
OrDefault(iv) == IF iv = Absent THEN DefaultInterval ELSE iv

\* The frame of one POST /api/subscriptions handler: the values of the
\* request, the document findOne returned, the new Date() it evaluated and
\* the answer it gave.
IdleHandler ==
    [pc |-> "idle", userId |-> "u1", targetUsername |-> "",
     checkInterval |-> DefaultInterval, keywords |-> <<>>,
     includeReplies |-> FALSE, includeRetweets |-> FALSE,
     found |-> NoSub, stamp |-> 0, status |-> "none"]

\* What POST /api/subscriptions/refresh-and-summarize has answered.
NoResponse ==
    [status |-> 0, success |-> FALSE,
     stats |-> [subscriptionsProcessed |-> 0, newTweets |-> 0, errors |-> <<>>],
     aiSummary |-> "none"]

\* The frame of POST /api/subscriptions/refresh-and-summarize.  before,
\* outcome, counts, aiFailed and stored are history: the size of the Post
\* collection when the request came in, what became of each subscription,
\* the values the calls returned, whether quickSummarize threw, and the Post
\* collection when it was called.
IdleRefresh ==
    [pc |-> "idle", runs |-> 0, user |-> "u1", list |-> <<>>, si |-> 0,
     totalNewTweets |-> 0, errors |-> <<>>, recentPosts |-> 0,
     aiSummary |-> "null", response |-> NoResponse,
     before |-> 0, outcome |-> <<>>, counts |-> <<>>, aiFailed |-> FALSE,
     stored |-> <<>>]

\* marked is history: the user and the postIds of the last mark-read request
\* and its number among the requests.
IdleApi ==
    [frame |-> [h \in Handlers |-> IdleHandler], reqs |-> 0,
     marked |-> [user |-> "u1", ids |-> {}, req |-> 0],
     refresh |-> IdleRefresh]

\* Subscription.findOne({ userId, targetUsername })
SubsOf(u, target) ==
    {s \in DOMAIN subs : subs[s].userId = u /\ subs[s].targetUsername = target}

SubDuplicateKeyNoIndex(u, target) == FALSE

\* The unique index on (userId, targetUsername) rejects the insert.
SubDuplicateKey(u, target) == SubsOf(u, target) # {}

\* The _id of the next document of the Subscription collection.
NextSubId == Cardinality(DOMAIN subs) + 1

\* The handler has answered.
Answer(h, status) ==
    [api EXCEPT !.frame[h] = [IdleHandler EXCEPT !.status = status]]

\* A request passes the validators and the handler starts.
CreateStart(h, u, target, b) ==
    /\ api.frame[h].pc = "idle"
    /\ api.reqs < MaxRequests
    /\ Validates(b.checkInterval)
    /\ api' = [api EXCEPT !.reqs = @ + 1,
                          !.frame[h] = [IdleHandler EXCEPT
                              !.pc = "cred", !.userId = u,
                              !.targetUsername = target,
                              !.checkInterval = OrDefault(b.checkInterval),
                              !.keywords = b.keywords,
                              !.includeReplies = b.includeReplies,
                              !.includeRetweets = b.includeRetweets]]
    /\ UNCHANGED <<now, ticks, published, subs, posts, rec, manual, batch, cron, source, prev, users>>

\* handleValidationErrors answers 400: the handler does not run.
CreateInvalid(b) ==
    /\ api.reqs < MaxRequests
    /\ ~Validates(b.checkInterval)
    /\ api' = [api EXCEPT !.reqs = @ + 1]
    /\ UNCHANGED <<now, ticks, published, subs, posts, rec, manual, batch, cron, source, prev, users>>

\* User.findById and createForUser: credentials are set up, or 400.
CreateCredentials(h) ==
    /\ api.frame[h].pc = "cred"
    /\ api' = IF HasCredentials(api.frame[h].userId)
              THEN [api EXCEPT !.frame[h].pc = "resolve"]
              ELSE Answer(h, "nocredentials")
    /\ UNCHANGED <<now, ticks, published, subs, posts, rec, manual, batch, cron, source, prev, users>>

\* getUserByUsername resolves the target account.
CreateResolve(h) ==
    /\ api.frame[h].pc = "resolve"
    /\ api' = [api EXCEPT !.frame[h].pc = "find"]
    /\ UNCHANGED <<now, ticks, published, subs, posts, rec, manual, batch, cron, source, prev, users>>

\* Subscription.findOne: an active document, 400; an inactive one, its
\* fields are assigned (lastChecked = new Date()) and save() is called; none,
\* new Subscription({...}) is built and save() is called.
CreateFind(h) ==
    /\ api.frame[h].pc = "find"
    /\ LET f == api.frame[h]
           S == SubsOf(f.userId, f.targetUsername)
       IN api' = IF S = {} THEN [api EXCEPT !.frame[h].pc = "insert",
                                            !.frame[h].stamp = now]
                 ELSE LET s == CHOOSE x \in S : TRUE IN
                      IF subs[s].isActive THEN Answer(h, "already")
                      ELSE [api EXCEPT !.frame[h].pc = "reactivate",
                                       !.frame[h].found = Snapshot(s),
                                       !.frame[h].stamp = now]
    /\ UNCHANGED <<now, ticks, published, subs, posts, rec, manual, batch, cron, source, prev, users>>

\* path = value on a loaded document: the path is sent by save() when the
\* value differs from the loaded one.
Assigned(loaded, value, stored) == IF value = loaded THEN stored ELSE value

ReactivateInsert(h) ==
    LET f == api.frame[h] IN
    subs' = subs @@ (NextSubId :>
               [userId |-> f.userId, targetUsername |-> f.targetUsername,
                isActive |-> TRUE, checkInterval |-> f.checkInterval,
                lastChecked |-> f.stamp, keywords |-> f.keywords,
                includeReplies |-> f.includeReplies,
                includeRetweets |-> f.includeRetweets])

\* existingSub.save(): the assigned paths are written to the document.
ReactivateSave(h) ==
    LET f == api.frame[h]
        s == f.found.id
    IN subs' = [subs EXCEPT ![s] =
                  [@ EXCEPT
                     !.isActive = Assigned(f.found.isActive, TRUE, @),
                     !.checkInterval = Assigned(f.found.checkInterval, f.checkInterval, @),
                     !.keywords = Assigned(f.found.keywords, f.keywords, @),
                     !.includeReplies = Assigned(f.found.includeReplies, f.includeReplies, @),
                     !.includeRetweets = Assigned(f.found.includeRetweets, f.includeRetweets, @),
                     !.lastChecked = Assigned(f.found.lastChecked, f.stamp, @)]]

\* The reactivation is saved and the handler answers 200; a value the
\* schema does not validate rejects the save (500).
CreateReactivate(h) ==
    /\ api.frame[h].pc = "reactivate"
    /\ IF SchemaValid(api.frame[h].checkInterval)
       THEN ReactivateSave(h) /\ api' = Answer(h, "reactivated")
       ELSE subs' = subs /\ api' = Answer(h, "failed")
    /\ UNCHANGED <<now, ticks, published, posts, rec, manual, batch, cron, source, prev, users>>

\* subscription.save() of the new document: the schema validators or the
\* unique index reject it (500), or it is inserted (201).
CreateInsert(h) ==
    /\ api.frame[h].pc = "insert"
    /\ NextSubId \in SubIds
    /\ LET f == api.frame[h] IN
       IF ~SchemaValid(f.checkInterval)
       THEN subs' = subs /\ api' = Answer(h, "failed")
       ELSE IF SubDuplicateKey(f.userId, f.targetUsername)
       THEN subs' = subs /\ api' = Answer(h, "duplicate")
       ELSE /\ subs' = subs @@ (NextSubId :>
                       [userId |-> f.userId, targetUsername |-> f.targetUsername,
                        isActive |-> TRUE, checkInterval |-> f.checkInterval,
                        lastChecked |-> f.stamp, keywords |-> f.keywords,
                        includeReplies |-> f.includeReplies,
                        includeRetweets |-> f.includeRetweets])
            /\ api' = Answer(h, "created")
    /\ UNCHANGED <<now, ticks, published, posts, rec, manual, batch, cron, source, prev, users>>

\* An await of the handler rejects: the catch answers 500.
CreateFails(h) ==
    /\ api.frame[h].pc \in {"resolve", "find", "reactivate", "insert"}
    /\ api' = Answer(h, "failed")
    /\ UNCHANGED <<now, ticks, published, subs, posts, rec, manual, batch, cron, source, prev, users>>

\* ----------------------------------------- DELETE /api/subscriptions/:id
ApiDeleteHard(u, s) ==
    /\ api.reqs < MaxRequests
    /\ api' = [api EXCEPT !.reqs = @ + 1]
    /\ subs' = IF s \in DOMAIN subs
               THEN [x \in DOMAIN subs \ {s} |-> subs[x]]
               ELSE subs
    /\ UNCHANGED <<now, ticks, published, posts, rec, manual, batch, cron, source, prev, users>>

\* Subscription.findOneAndUpdate({ _id, userId }, { isActive: false }); no
\* document of the user with this _id, 404.
ApiDelete(u, s) ==
    /\ api.reqs < MaxRequests
    /\ api' = [api EXCEPT !.reqs = @ + 1]
    /\ subs' = IF s \in DOMAIN subs
               THEN (IF subs[s].userId = u
                     THEN [subs EXCEPT ![s].isActive = FALSE]
                     ELSE subs)
               ELSE subs
    /\ UNCHANGED <<now, ticks, published, posts, rec, manual, batch, cron, source, prev, users>>

\* ------------------------------------------- POST /api/posts/mark-read
ApiMarkReadPurge(u, ids) ==
    /\ api.reqs < MaxRequests
    /\ ids # {}
    /\ api' = [api EXCEPT !.reqs = @ + 1,
                          !.marked = [user |-> u, ids |-> ids, req |-> api.reqs + 1]]
    /\ posts' = SelectSeq(posts, LAMBDA p : ~(p.tweetId \in ids /\ p.userId = u))
    /\ UNCHANGED <<now, ticks, published, subs, rec, manual, batch, cron, source, prev, users>>

\* Post.updateMany without userId in its filter.
ApiMarkReadAnyUser(u, ids) ==
    /\ api.reqs < MaxRequests
    /\ ids # {}
    /\ api' = [api EXCEPT !.reqs = @ + 1,
                          !.marked = [user |-> u, ids |-> ids, req |-> api.reqs + 1]]
    /\ posts' = [i \in 1..Len(posts) |->
                   IF i \in ids THEN [posts[i] EXCEPT !.isRead = TRUE] ELSE posts[i]]
    /\ UNCHANGED <<now, ticks, published, subs, rec, manual, batch, cron, source, prev, users>>

\* Post.updateMany({ _id: { $in: postIds }, userId }, { isRead: true }); the
\* _id of a post of the model is its position in the collection.
ApiMarkRead(u, ids) ==
    /\ api.reqs < MaxRequests
    /\ ids # {}
    /\ api' = [api EXCEPT !.reqs = @ + 1,
                          !.marked = [user |-> u, ids |-> ids, req |-> api.reqs + 1]]
    /\ posts' = [i \in 1..Len(posts) |->
                   IF i \in ids /\ posts[i].userId = u
                   THEN [posts[i] EXCEPT !.isRead = TRUE]
                   ELSE posts[i]]
    /\ UNCHANGED <<now, ticks, published, subs, rec, manual, batch, cron, source, prev, users>>

\* ------------------------- POST /api/subscriptions/refresh-and-summarize
\* res.status(status).json({ error }) of the route.
RefreshAnswer(f, status) ==
    [f EXCEPT !.pc = "done", !.response = [NoResponse EXCEPT !.status = status]]

\* The request comes in and Subscription.find({ userId, isActive: true })
\* answers: 400 when the list is empty.
RefreshStart(u) ==
    /\ api.refresh.pc \in {"idle", "done"}
    /\ api.refresh.runs < MaxManual
    /\ LET f == [IdleRefresh EXCEPT !.runs = api.refresh.runs + 1,
                                    !.user = u,
                                    !.list = ActiveSubs(u),
                                    !.outcome = [i \in 1..Len(ActiveSubs(u)) |-> "none"],
                                    !.before = Len(posts)]
       IN api' = [api EXCEPT !.refresh =
                      IF Len(f.list) = 0 THEN RefreshAnswer(f, 400)
                      ELSE [f EXCEPT !.pc = "svc"]]
    /\ UNCHANGED <<now, ticks, published, subs, posts, rec, manual, batch, cron, source, prev, users>>

\* Subscription.find rejects: the outer catch answers 500.
RefreshStartFails(u) ==
    /\ api.refresh.pc \in {"idle", "done"}
    /\ api.refresh.runs < MaxManual
    /\ api' = [api EXCEPT !.refresh =
                  RefreshAnswer([IdleRefresh EXCEPT !.runs = api.refresh.runs + 1,
                                                    !.user = u,
                                                    !.before = Len(posts)], 500)]
    /\ UNCHANGED <<now, ticks, published, subs, posts, rec, manual, batch, cron, source, prev, users>>

\* TwitterService.createForUser returns a service.
RefreshSvcOk ==
    /\ api.refresh.pc = "svc"
    /\ HasCredentials(api.refresh.user)
    /\ api' = [api EXCEPT !.refresh.pc = "loop", !.refresh.si = 1]
    /\ UNCHANGED <<now, ticks, published, subs, posts, rec, manual, batch, cron, source, prev, users>>

\* TwitterService.createForUser returns null: 400.
RefreshSvcNull ==
    /\ api.refresh.pc = "svc"
    /\ ~HasCredentials(api.refresh.user)
    /\ api' = [api EXCEPT !.refresh = RefreshAnswer(api.refresh, 400)]
    /\ UNCHANGED <<now, ticks, published, subs, posts, rec, manual, batch, cron, source, prev, users>>

\* The for-loop calls processSubscriptionTweets for the next subscription of
\* the list, due or not.
RefreshCall ==
    /\ api.refresh.pc = "loop"
    /\ api.refresh.si <= Len(api.refresh.list)
    /\ rec' = [rec EXCEPT !["manual"] = StartRec(api.refresh.list[api.refresh.si])]
    /\ api' = [api EXCEPT !.refresh.pc = "rec"]
    /\ UNCHANGED <<now, ticks, published, subs, posts, manual, batch, cron, source, prev, users>>

\* processSubscriptionTweets returned: totalNewTweets += newTweetsCount.
RefreshRecOk ==
    /\ api.refresh.pc = "rec"
    /\ rec["manual"].pc = "returned"
    /\ api' = [api EXCEPT !.refresh.totalNewTweets = @ + rec["manual"].count,
                          !.refresh.outcome[api.refresh.si] = "ok",
                          !.refresh.counts = Append(@, rec["manual"].count),
                          !.refresh.pc = "delay"]
    /\ rec' = [rec EXCEPT !["manual"] = IdleRec]
    /\ UNCHANGED <<now, ticks, published, subs, posts, manual, batch, cron, source, prev, users>>

\* The timer of 1000 ms is over.
RefreshDelay ==
    /\ api.refresh.pc = "delay"
    /\ api' = [api EXCEPT !.refresh.pc = "loop", !.refresh.si = @ + 1]
    /\ UNCHANGED <<now, ticks, published, subs, posts, rec, manual, batch, cron, source, prev, users>>

\* processSubscriptionTweets threw: errors.push; the loop goes on.
RefreshRecErr ==
    /\ api.refresh.pc = "rec"
    /\ rec["manual"].pc = "threw"
    /\ api' = [api EXCEPT
                  !.refresh.errors =
                      Append(@, api.refresh.list[api.refresh.si].targetUsername),
                  !.refresh.outcome[api.refresh.si] = "err",
                  !.refresh.pc = "loop",
                  !.refresh.si = @ + 1]
    /\ rec' = [rec EXCEPT !["manual"] = IdleRec]
    /\ UNCHANGED <<now, ticks, published, subs, posts, manual, batch, cron, source, prev, users>>

\* Post.find({ userId, createdAt >= now - 10 minutes }).limit(20): every Post
\* of the model was created within the last ten minutes.
RecentPosts(u) ==
    Min(Cardinality({i \in 1..Len(posts) : posts[i].userId = u}), RecentLimit)

\* After the loop the recent posts are loaded; with none of them the
\* summary is skipped.
RefreshPosts ==
    /\ api.refresh.pc = "loop"
    /\ api.refresh.si > Len(api.refresh.list)
    /\ api' = [api EXCEPT
                  !.refresh.recentPosts = RecentPosts(api.refresh.user),
                  !.refresh.stored = posts,
                  !.refresh.pc = IF RecentPosts(api.refresh.user) > 0
                                 THEN "ai" ELSE "log"]
    /\ UNCHANGED <<now, ticks, published, subs, posts, rec, manual, batch, cron, source, prev, users>>

\* Post.find rejects: the outer catch answers 500.
RefreshPostsFails ==
    /\ api.refresh.pc = "loop"
    /\ api.refresh.si > Len(api.refresh.list)
    /\ api' = [api EXCEPT !.refresh = RefreshAnswer(api.refresh, 500)]
    /\ UNCHANGED <<now, ticks, published, subs, posts, rec, manual, batch, cron, source, prev, users>>

\* quickSummarize returns the summary text.
RefreshAiOk ==
    /\ api.refresh.pc = "ai"
    /\ api' = [api EXCEPT !.refresh.aiSummary = "summary", !.refresh.pc = "log"]
    /\ UNCHANGED <<now, ticks, published, subs, posts, rec, manual, batch, cron, source, prev, users>>

\* quickSummarize throws and its error reaches the outer catch: 500.
RefreshAiThrows ==
    /\ api.refresh.pc = "ai"
    /\ api' = [api EXCEPT !.refresh =
                  [RefreshAnswer(api.refresh, 500) EXCEPT !.aiFailed = TRUE]]
    /\ UNCHANGED <<now, ticks, published, subs, posts, rec, manual, batch, cron, source, prev, users>>

\* quickSummarize throws: the inner catch logs, aiSummary stays null.
RefreshAiFails ==
    /\ api.refresh.pc = "ai"
    /\ api' = [api EXCEPT !.refresh.aiFailed = TRUE, !.refresh.pc = "log"]
    /\ UNCHANGED <<now, ticks, published, subs, posts, rec, manual, batch, cron, source, prev, users>>

\* logActivity, which catches its own errors, and res.json({ success: true,
\* stats, aiSummary }).
RefreshRespond ==
    /\ api.refresh.pc = "log"
    /\ api' = [api EXCEPT
                  !.refresh.pc = "done",
                  !.refresh.response =
                      [status |-> 200, success |-> TRUE,
                       stats |-> [subscriptionsProcessed |-> Len(api.refresh.list),
                                  newTweets |-> api.refresh.totalNewTweets,
                                  errors |-> api.refresh.errors],
                       aiSummary |-> IF api.refresh.aiSummary = "null"
                                     THEN "No new tweets to summarize"
                                     ELSE api.refresh.aiSummary]]
    /\ UNCHANGED <<now, ticks, published, subs, posts, rec, manual, batch, cron, source, prev, users>>

\* ------------------------------------------------------- specification
\* new Subscription({...}) of POST /api/subscriptions, created at time 0.
NewSub(u, target, interval, kws) ==
    [userId |-> u, targetUsername |-> target, isActive |-> TRUE,
     checkInterval |-> interval, lastChecked |-> 0, keywords |-> kws,
     includeReplies |-> FALSE, includeRetweets |-> FALSE]

\* The keyword lists a subscription of the model is created with.
KeywordLists == {<<>>, << <<"a", ".", "b">> >>}

NoPrev ==
    [sub |-> 0, ok |-> FALSE, seen |-> {}, posts |-> <<>>, lc |-> 0, count |-> 0]

InitCommon ==
    /\ now = MinInterval
    /\ ticks = 0
    /\ published = [t \in TweetIds |-> NoTime]
    /\ posts = <<>>
    /\ rec = [th \in Threads |-> IdleRec]
    /\ batch = IdleBatch
    /\ cron = IdleCron
    /\ source \in [honoursExclude : BOOLEAN]
    /\ prev = NoPrev
    /\ api = IdleApi

\* One user with credentials and one subscription, which the sweep and the
\* manual refresh both reconcile; a second user who has set up no credentials.
Init ==
    /\ InitCommon
    /\ manual = [pc |-> "idle", runs |-> 0, limit |-> MaxManual, sub |-> NoSub]
    /\ users = [u \in Users |-> [isActive |-> TRUE, hasCredentials |-> u = "u1"]]
    /\ \E kws \in KeywordLists :
          subs = (1 :> NewSub("u1", "acme", MinInterval, kws))

Next ==
    \/ Tick
    \/ Publish
    \/ \E th \in Threads : RecStep(th)
    \/ \E u \in Users, s \in SubIds : ManualFind(u, s) \/ ManualNotFound(u, s)
    \/ ManualSvcOk \/ ManualSvcNull \/ ManualRespond
    \/ CronFire \/ CronListFails \/ CronSvcOk \/ CronSvcNull \/ CronUserDelay \/ CronLog
    \/ BatchLoadOk \/ BatchLoadFails \/ BatchDue \/ BatchNotDue
    \/ BatchRecOk \/ BatchRecErr \/ BatchDelay \/ BatchReturn

Spec == Init /\ [][Next]_vars

\* The sweep alone: two users with credentials; u1 has two subscriptions that
\* are due, u2 has one with the default interval and a keyword.
InitSweep ==
    /\ InitCommon
    /\ manual = [pc |-> "idle", runs |-> 0, limit |-> 0, sub |-> NoSub]
    /\ users = [u \in Users |-> [isActive |-> TRUE, hasCredentials |-> TRUE]]
    /\ subs = (1 :> NewSub("u1", "acme", MinInterval, <<>>))
              @@ (2 :> NewSub("u1", "beta", MinInterval, <<>>))
              @@ (3 :> NewSub("u2", "acme", DefaultInterval, << <<"a", ".", "b">> >>))

NextSweep ==
    \/ Tick
    \/ Publish
    \/ RecStep("cron")
    \/ CronFire \/ CronListFails \/ CronSvcOk \/ CronSvcNull \/ CronUserDelay \/ CronLog
    \/ BatchLoadOk \/ BatchLoadFails \/ BatchDue \/ BatchNotDue
    \/ BatchRecOk \/ BatchRecErr \/ BatchDelay \/ BatchReturn

SpecSweep == InitSweep /\ [][NextSweep]_vars

\* The steps of a call that wait for the remote source: the requests of
\* getUserByUsername and getUserTweets are sent without a timeout, so their
\* awaits settle when the source answers and not before.
RemoteStep(th) ==
    \/ ResolveOk(th) \/ ResolveFails(th)
    \/ FetchOk(th) \/ FetchRateLimited(th) \/ FetchFails(th)

\* The steps of a call that wait for the local store or for nothing.
StoreStep(th) ==
    \/ FindOne(th) \/ FindOneFails(th)
    \/ Save(th) \/ SaveFails(th)
    \/ Stamp(th)
    \/ UpdateOk(th) \/ UpdateFails(th)

\* The steps of the sweep and of its batch: store queries, timers, loops.
SweepStep ==
    \/ CronSvcOk \/ CronSvcNull \/ CronUserDelay \/ CronLog
    \/ BatchLoadOk \/ BatchLoadFails \/ BatchDue \/ BatchNotDue
    \/ BatchRecOk \/ BatchRecErr \/ BatchDelay \/ BatchReturn

\* The sweep alone, with the progress the event loop, the timers and the
\* local store give: a step of the program that can be taken is taken.  The
\* answers of the remote source come when the source sends them.
SpecLive ==
    /\ InitSweep
    /\ [][NextSweep]_vars
    /\ WF_vars(StoreStep("cron"))
    /\ WF_vars(SweepStep)

\* Manual refreshes one after the other, nothing else running.
NextSeq ==
    \/ Tick
    \/ Publish
    \/ RecStep("manual")
    \/ \E u \in Users, s \in SubIds : ManualFind(u, s) \/ ManualNotFound(u, s)
    \/ ManualSvcOk \/ ManualSvcNull \/ ManualRespondSeq

InitSeq ==
    /\ InitCommon
    /\ manual = [pc |-> "idle", runs |-> 0, limit |-> MaxCalls, sub |-> NoSub]
    /\ users = [u \in Users |-> [isActive |-> TRUE, hasCredentials |-> u = "u1"]]
    /\ \E kws \in KeywordLists :
          subs = (1 :> NewSub("u1", "acme", MinInterval, kws))

SpecSeq == InitSeq /\ [][NextSeq]_vars

\* The subscription routes of one user with credentials and one without;
\* no subscription exists yet.
InitApi ==
    /\ InitCommon
    /\ manual = [pc |-> "idle", runs |-> 0, limit |-> 0, sub |-> NoSub]
    /\ users = [u \in Users |-> [isActive |-> TRUE, hasCredentials |-> u = "u1"]]
    /\ subs = <<>>

NextApi ==
    \/ Tick
    \/ \E h \in Handlers, u \in Users, target \in Targets, b \in Bodies :
          CreateStart(h, u, target, b)
    \/ \E b \in Bodies : CreateInvalid(b)
    \/ \E h \in Handlers :
          \/ CreateCredentials(h) \/ CreateResolve(h) \/ CreateFind(h)
          \/ CreateReactivate(h) \/ CreateInsert(h) \/ CreateFails(h)
    \/ \E u \in Users, s \in SubIds : ApiDelete(u, s)

SpecApi == InitApi /\ [][NextApi]_vars

\* One subscription and its manual refresh, next to the delete and the
\* mark-read requests of the users.
NextPosts ==
    \/ Tick
    \/ Publish
    \/ RecStep("manual")
    \/ \E u \in Users, s \in SubIds : ManualFind(u, s) \/ ManualNotFound(u, s)
    \/ ManualSvcOk \/ ManualSvcNull \/ ManualRespond
    \/ \E u \in Users, s \in SubIds : ApiDelete(u, s)
    \/ \E u \in Users, ids \in SUBSET TweetIds : ApiMarkRead(u, ids)

SpecPosts == Init /\ [][NextPosts]_vars

\* The sweep with a scheduler whose next tick comes before the sweep ends.
NextOverlap ==
    \/ NextSweep
    \/ CronFireOverlap

SpecOverlap == InitSweep /\ [][NextOverlap]_vars

\* The refresh-and-summarize requests of a user with credentials and two
\* subscriptions and of a user without credentials.
InitSummary ==
    /\ InitCommon
    /\ manual = [pc |-> "idle", runs |-> 0, limit |-> 0, sub |-> NoSub]
    /\ users = [u \in Users |-> [isActive |-> TRUE, hasCredentials |-> u = "u1"]]
    /\ subs = (1 :> NewSub("u1", "acme", MinInterval, <<>>))
              @@ (2 :> NewSub("u1", "beta", MinInterval, <<>>))
              @@ (3 :> NewSub("u2", "acme", DefaultInterval, <<>>))

NextSummary ==
    \/ Tick
    \/ Publish
    \/ RecStep("manual")
    \/ \E u \in Users : RefreshStart(u) \/ RefreshStartFails(u)
    \/ RefreshSvcOk \/ RefreshSvcNull
    \/ RefreshCall \/ RefreshRecOk \/ RefreshDelay \/ RefreshRecErr
    \/ RefreshPosts \/ RefreshPostsFails
    \/ RefreshAiOk \/ RefreshAiFails
    \/ RefreshRespond

SpecSummary == InitSummary /\ [][NextSummary]_vars

\* A burst of the target account: more posts than one page of the timeline
\* request holds, or exactly one page, all published before the first
\* refresh of a subscription that takes replies and retweets as well.
BurstSize == MaxResults + 1

InitBurst ==
    /\ now = MinInterval
    /\ ticks = 0
    /\ \E n \in {MaxResults, BurstSize} :
          published = [t \in 1..BurstSize |-> IF t <= n THEN 1 ELSE NoTime]
    /\ posts = <<>>
    /\ rec = [th \in Threads |-> IdleRec]
    /\ batch = IdleBatch
    /\ cron = IdleCron
    /\ source \in [honoursExclude : BOOLEAN]
    /\ prev = NoPrev
    /\ api = IdleApi
    /\ manual = [pc |-> "idle", runs |-> 0, limit |-> MaxManual, sub |-> NoSub]
    /\ users = [u \in Users |-> [isActive |-> TRUE, hasCredentials |-> u = "u1"]]
    /\ subs = (1 :> [NewSub("u1", "acme", MinInterval, <<>>)
                        EXCEPT !.includeReplies = TRUE, !.includeRetweets = TRUE])

NextBurst ==
    \/ Tick
    \/ RecStep("manual")
    \/ \E u \in Users, s \in SubIds : ManualFind(u, s) \/ ManualNotFound(u, s)
    \/ ManualSvcOk \/ ManualSvcNull \/ ManualRespond

SpecBurst == InitBurst /\ [][NextBurst]_vars

\* The sweep over two users who both follow the account acme; the second
\* user has another subscription that is not due.
InitShared ==
    /\ InitCommon
    /\ manual = [pc |-> "idle", runs |-> 0, limit |-> 0, sub |-> NoSub]
    /\ users = [u \in Users |-> [isActive |-> TRUE, hasCredentials |-> TRUE]]
    /\ subs = (1 :> NewSub("u1", "acme", MinInterval, <<>>))
              @@ (2 :> NewSub("u2", "acme", MinInterval, <<>>))
              @@ (3 :> NewSub("u2", "beta", DefaultInterval, <<>>))

SpecShared == InitShared /\ [][NextSweep]_vars

\* =================================================================== claims
Rows(id) == {i \in 1..Len(posts) : posts[i].tweetId = id}

Running(th) == rec[th].pc \notin {"none", "returned", "threw"}

\* C1: in every reachable state the Post collection holds at most one
\* document per tweetId, however the reconciliations of the sweep and of the
\* manual refresh interleave.
C1_UniqueTweetId ==
    \A i, j \in 1..Len(posts) : posts[i].tweetId = posts[j].tweetId => i = j

\* Two reconciliations of the same subscription both found the post absent;
\* one inserted it, the insert of the other was rejected: one row.
C1_Witness ==
    /\ rec["cron"].sub.id = rec["manual"].sub.id
    /\ rec["cron"].sub.id # 0
    /\ \E th \in Threads : rec[th].err = "DuplicateKey"
    /\ \E t \in TweetIds : Cardinality(Rows(t)) = 1

\* C2: an insert rejected with DuplicateKey is treated like a post found by
\* the existence check, so no processSubscriptionTweets call ends in a
\* DuplicateKey error.
C2_DuplicateKeyAbsorbed ==
    \A th \in Threads : rec[th].err # "DuplicateKey"

\* A post passes the filters of a subscription.
PassesFilters(sub, t) ==
    /\ Author(t) = sub.targetUsername
    /\ ~Excluded(t, ExcludeTypes(sub.includeReplies, sub.includeRetweets))
    /\ KeywordFilter(sub.keywords, t)

\* C3: no post that passes a subscription's filters is skipped: a published
\* post is stored, or it is not older than the checkpoint, so that the fetch
\* of the next reconciliation returns it.
C3_NoPostSkipped ==
    \A s \in DOMAIN subs : \A t \in TweetIds :
        (published[t] # NoTime /\ PassesFilters(subs[s], t))
            => (FindPost(t) \/ published[t] >= subs[s].lastChecked)

\* The second of two calls made one after the other has ended, the first
\* call succeeded, and no remote post has appeared since the first's fetch.
SecondCallEnded ==
    /\ rec["manual"].pc \in {"returned", "threw"}
    /\ prev.ok
    /\ prev.sub = rec["manual"].sub.id
    /\ prev.seen = PublishedSet

\* C4: processSubscriptionTweets called twice in succession for the same
\* subscription, with no new remote post in between: the second call stores
\* nothing, leaves the Post collection as the first call left it, and when
\* it returns it returns 0.
C4_Idempotent ==
    SecondCallEnded =>
        /\ posts = prev.posts
        /\ rec["manual"].err # "DuplicateKey"
        /\ rec["manual"].pc = "returned" => rec["manual"].count = 0

\* The second call returned 0 after its fetch returned a post that the first
\* call had stored.
C4_Witness ==
    /\ SecondCallEnded
    /\ rec["manual"].pc = "returned"
    /\ rec["manual"].count = 0
    /\ \E i \in 1..Len(posts) :
          published[posts[i].tweetId] >= rec["manual"].sub.lastChecked

\* C5: when processSubscriptionTweets ends in an error, the error reaches the
\* caller and the stored lastChecked is the one of the call's start, unless
\* another writer has written the checkpoint meanwhile.
C5_FailedKeepsCheckpoint ==
    \A th \in Threads :
        rec[th].pc = "threw" =>
            /\ rec[th].err # "none"
            /\ rec[th].foreign \/ subs[rec[th].sub.id].lastChecked = rec[th].lcStart

\* A call failed after it had stored a post, later than its checkpoint.
C5_Witness ==
    \E th \in Threads :
        /\ rec[th].pc = "threw"
        /\ ~rec[th].foreign
        /\ rec[th].count > 0
        /\ now > rec[th].lcStart

\* C6: the stored lastChecked of a subscription never decreases.
C6_CheckpointMonotone ==
    [][\A s \in DOMAIN subs :
          s \in DOMAIN subs' => subs'[s].lastChecked >= subs[s].lastChecked]_vars

\* processAllUserSubscriptions is about to return.
BatchReturning == cron.pc = "sub" /\ batch.si > Len(batch.list)

Failed == {i \in 1..Len(batch.list) : batch.outcome[i] = "err"}

\* C7: when processAllUserSubscriptions returns, every subscription of its
\* list was evaluated, also those after one whose reconciliation failed, and
\* errors holds one entry for each failed subscription, naming its target,
\* and nothing else.
C7_BatchResilient ==
    BatchReturning =>
        /\ \A i \in 1..Len(batch.list) : batch.outcome[i] # "none"
        /\ Len(batch.errors) = Cardinality(Failed)
        /\ \A i \in Failed :
              Cardinality({k \in 1..Len(batch.errors) :
                              batch.errors[k] = batch.list[i].targetUsername}) = 1

\* The first subscription of the batch failed and the second was reconciled.
C7_Witness ==
    /\ BatchReturning
    /\ Len(batch.list) = 2
    /\ batch.outcome = <<"err", "ok">>
    /\ batch.errors = <<"acme">>

\* C8: a sweep that has loaded its user list ends having visited every
\* user of the list, whatever happened to the users before, and no sweep
\* ends by throwing.
C8_SweepReachesAll ==
    /\ cron.outcome \in {"none", "completed", "logged"}
    /\ (cron.pc = "done" /\ cron.listed) =>
          /\ cron.users = ActiveUsers
          /\ \A i \in 1..Len(cron.users) : cron.visited[cron.users[i]] # "none"

\* The sweep ended; the first user failed and the second user's batch ran.
C8_Witness ==
    /\ cron.pc = "done"
    /\ cron.listed
    /\ cron.visited["u1"] \in {"nosvc", "threw"}
    /\ cron.visited["u2"] = "batch"

\* C9: no post with a "replied_to" reference is stored for a subscription
\* with includeReplies = false, and none with a "retweeted" reference for
\* one with includeRetweets = false.
C9_ExcludedNeverStored ==
    \A i \in 1..Len(posts) :
        LET sub == subs[posts[i].subscriptionId] IN
        /\ ~sub.includeReplies => "replied_to" \notin RefTypes(posts[i].tweetId)
        /\ ~sub.includeRetweets => "retweeted" \notin RefTypes(posts[i].tweetId)

\* The text contains the keyword as a substring, ignoring case.
ContainsIgnoreCase(text, kw) ==
    \E i \in 1..(Len(text) + 1) :
        /\ i + Len(kw) - 1 <= Len(text)
        /\ \A j \in 1..Len(kw) : Lower(text[i + j - 1]) = Lower(kw[j])

\* C10: a post stored for a subscription with a non-empty keyword list
\* contains one of the keywords as a case-insensitive substring.
C10_KeywordSubstring ==
    \A i \in 1..Len(posts) :
        LET sub == subs[posts[i].subscriptionId] IN
        Len(sub.keywords) > 0 =>
            \E k \in 1..Len(sub.keywords) :
                ContainsIgnoreCase(TweetText(posts[i].tweetId), sub.keywords[k])

\* The call of thread th is the same call before and after the step.
SameCall(th) == rec[th].pc # "none" /\ rec'[th].pc # "none"

\* The rows a step adds to the Post collection.
RowsAdded == Len(posts') - Len(posts)

\* What a step adds to the newTweetsCount of the running calls.
CountAdded(th) == IF SameCall(th) THEN rec'[th].count - rec[th].count ELSE 0

\* C11: newTweetsCount counts the rows the call inserted: every step adds as
\* many rows to the Post collection as it adds to the counts of the running
\* calls, a call starts with count 0, and its count is what the step that
\* returns hands back; the checkpoint that step writes is not earlier than
\* the creation time of any post that existed when the call fetched.
C11_CountIsInserted ==
    [][/\ RowsAdded = CountAdded("cron") + CountAdded("manual")
       /\ \A th \in Threads :
             /\ CountAdded(th) \in {0, 1}
             /\ (rec[th].pc = "none" /\ rec'[th].pc # "none") => rec'[th].count = 0
             /\ (rec[th].pc = "update" /\ rec'[th].pc = "returned") =>
                   /\ rec'[th].count = rec[th].count
                   /\ \A t \in rec[th].seen :
                         subs'[rec[th].sub.id].lastChecked >= published[t]]_vars

\* A call returned 2 after it stored two posts while the other thread's call
\* of the same subscription was running.
C11_Witness ==
    \E th \in Threads : \E o \in Threads \ {th} :
        /\ rec[th].pc = "returned"
        /\ rec[th].count = 2
        /\ Len(posts) = 2
        /\ \A i \in 1..Len(posts) : published[posts[i].tweetId] > rec[th].lcStart
        /\ rec[o].pc \notin {"none", "resolve"}
        /\ rec[o].sub.id = rec[th].sub.id

\* The posts the fetch of a call returned: those of its window that existed
\* when the timeline request was answered.
FetchedOf(r) ==
    {t \in r.seen :
        /\ Author(t) = r.sub.targetUsername
        /\ published[t] >= r.sub.lastChecked
        /\ source.honoursExclude =>
              ~Excluded(t, ExcludeTypes(r.sub.includeReplies, r.sub.includeRetweets))
        /\ KeywordFilter(r.sub.keywords, t)}

\* A call has ended whose predecessor, for the same subscription, failed.
RetryEnded ==
    /\ rec["manual"].pc \in {"returned", "threw"}
    /\ prev.sub = rec["manual"].sub.id
    /\ ~prev.ok

\* C13: after a failed processSubscriptionTweets the posts it had stored
\* are still stored and the checkpoint is the one it started from; the next
\* call for the subscription fetches from that same checkpoint, inserts only
\* posts that were missing, never fails on a post already stored, and when
\* it returns every post of its fetch is stored.
C13_PartialThenRetry ==
    RetryEnded =>
        /\ Len(prev.posts) <= Len(posts)
        /\ SubSeq(posts, 1, Len(prev.posts)) = prev.posts
        /\ rec["manual"].lcStart = prev.lc
        /\ rec["manual"].sub.lastChecked = prev.lc
        /\ rec["manual"].err # "DuplicateKey"
        /\ rec["manual"].count = Len(posts) - Len(prev.posts)
        /\ \A i, j \in 1..Len(posts) : posts[i].tweetId = posts[j].tweetId => i = j
        /\ rec["manual"].pc = "returned" =>
              \A t \in FetchedOf(rec["manual"]) : FindPost(t)

\* The first call stored one post of two and failed; the second call fetched
\* both again, skipped the stored one, stored the other and returned 1.
C13_Witness ==
    /\ RetryEnded
    /\ prev.count = 1
    /\ Len(prev.posts) = 1
    /\ rec["manual"].pc = "returned"
    /\ rec["manual"].count = 1
    /\ Len(posts) = 2
    /\ prev.posts[1].tweetId \in FetchedOf(rec["manual"])

\* The time elapsed since the stored lastChecked of subscription s is at
\* least its poll interval (minutes).
Elapsed(s) == now - subs[s].lastChecked >= subs[s].checkInterval

\* C20: processAllUserSubscriptions calls processSubscriptionTweets only for
\* an active subscription of its user whose poll interval has elapsed, and
\* passes over a subscription only when its interval has not elapsed; the
\* step that passes over it starts no fetch and changes no store.
C20_DueOnly ==
    [][/\ (rec["cron"].pc = "none" /\ rec'["cron"].pc # "none") =>
             /\ rec'["cron"].sub.id = CurSub.id
             /\ subs[CurSub.id].isActive
             /\ subs[CurSub.id].userId = batch.user
             /\ Elapsed(CurSub.id)
       /\ \A i \in 1..Len(batch.outcome) :
             (/\ i <= Len(batch'.outcome)
              /\ batch.outcome[i] = "none"
              /\ batch'.outcome[i] = "notdue") =>
                /\ ~Elapsed(batch.list[i].id)
                /\ UNCHANGED <<subs, posts, rec>>]_vars

\* The sweep reconciled a due subscription of u1 and is passing over the
\* subscription of u2, whose interval has not elapsed.
C20_Witness ==
    /\ cron.visited["u1"] = "batch"
    /\ subs[1].lastChecked > 0
    /\ batch.user = "u2"
    /\ batch.outcome = <<"notdue">>
    /\ subs[3].lastChecked = 0
    /\ rec["cron"].pc = "none"

\* C12: every processSubscriptionTweets call that was started ends, with a
\* result or with an error.
C12_EventuallyCompletes ==
    (rec["cron"].pc # "none") ~> (rec["cron"].pc \in {"returned", "threw"})

\* C14: the Subscription collection holds at most one document per
\* (userId, targetUsername) pair, however the create, reactivate and delete
\* requests interleave.
C14_OnePerPair ==
    \A s1, s2 \in DOMAIN subs :
        (subs[s1].userId = subs[s2].userId
            /\ subs[s1].targetUsername = subs[s2].targetUsername) => s1 = s2

\* Two concurrent create requests for the same pair both found no document;
\* one was inserted and the other rejected by the unique index.
C14_Witness ==
    /\ api.frame["h1"].status = "created"
    /\ api.frame["h2"].status = "duplicate"
    /\ Cardinality(DOMAIN subs) = 1

\* C15: the checkInterval of every Subscription document is in 15..1440.
C15_IntervalInRange ==
    \A s \in DOMAIN subs :
        subs[s].checkInterval >= 15 /\ subs[s].checkInterval <= 1440

\* One subscription was reactivated with the longest interval, another was
\* created without a checkInterval and has the default.
C15_Witness ==
    /\ \E h \in Handlers : api.frame[h].status = "reactivated"
    /\ \E s \in DOMAIN subs : subs[s].checkInterval = MaxInterval
    /\ \E s \in DOMAIN subs : subs[s].checkInterval = 60 /\ subs[s].lastChecked = now

\* C16: no step removes a Subscription document, and a step that
\* deactivates one changes its isActive field and nothing else, in that
\* document, in the others and in the Post collection.
C16_SoftDeleteOnly ==
    [][/\ DOMAIN subs \subseteq DOMAIN subs'
       /\ \A s \in DOMAIN subs :
             (s \in DOMAIN subs' /\ subs[s].isActive /\ ~subs'[s].isActive) =>
                /\ subs' = [subs EXCEPT ![s].isActive = FALSE]
                /\ posts' = posts]_vars

\* A subscription was deactivated and the posts stored for it are there.
C16_Witness ==
    /\ 1 \in DOMAIN subs
    /\ ~subs[1].isActive
    /\ Len(posts) > 0
    /\ \A i \in 1..Len(posts) : posts[i].subscriptionId = 1

\* The document a reactivation leaves: the one it found, active, with the
\* values of the request and lastChecked at the handler's new Date().
Reactivated(f) ==
    [subs[f.found.id] EXCEPT
        !.isActive = TRUE,
        !.checkInterval = f.checkInterval,
        !.keywords = f.keywords,
        !.includeReplies = f.includeReplies,
        !.includeRetweets = f.includeRetweets,
        !.lastChecked = f.stamp]

\* C17: a create request that finds an inactive document of its pair takes
\* the reactivation path with that document, and when its save is applied to
\* the document as it was found, the document becomes active, carries the
\* values of the request and a lastChecked of the time the handler read, and
\* no document is added.
C17_ReactivationReuses ==
    [][\A h \in Handlers :
          LET f == api.frame[h] IN
          /\ (/\ f.pc = "find"
              /\ api'.frame[h] # f
              /\ api'.frame[h].status # "failed"
              /\ \E s \in SubsOf(f.userId, f.targetUsername) : ~subs[s].isActive) =>
                /\ api'.frame[h].pc = "reactivate"
                /\ api'.frame[h].found.id \in SubsOf(f.userId, f.targetUsername)
                /\ api'.frame[h].stamp = now
                /\ subs' = subs
          /\ (/\ f.pc = "reactivate"
              /\ api'.frame[h].status = "reactivated"
              /\ Snapshot(f.found.id) = f.found) =>
                /\ subs' = [subs EXCEPT ![f.found.id] = Reactivated(f)]
                /\ DOMAIN subs' = DOMAIN subs]_vars

\* A subscription created with the defaults was deleted and then reactivated,
\* after the clock had advanced, by a request with the shortest interval, a
\* keyword and replies.
C17_Witness ==
    /\ \E h \in Handlers : api.frame[h].status = "reactivated"
    /\ DOMAIN subs = {1}
    /\ subs[1].isActive
    /\ subs[1].checkInterval = MinInterval
    /\ Len(subs[1].keywords) = 1
    /\ subs[1].includeReplies
    /\ subs[1].lastChecked = now
    /\ ticks = 1

\* C18: no step removes a Post or changes a field of an existing Post other
\* than isRead.
C18_PostsImmutable ==
    [][\A i \in 1..Len(posts) :
          /\ i <= Len(posts')
          /\ posts'[i] = [posts[i] EXCEPT !.isRead = posts'[i].isRead]]_vars

\* A stored post was marked read and another post was stored after that.
C18_Witness ==
    /\ Len(posts) = 2
    /\ posts[1].isRead
    /\ ~posts[2].isRead
    /\ rec["manual"].pc = "returned"

\* C19: a step of processSubscriptionTweets leaves the Post collection as
\* it is or appends to it, and leaves the Subscription collection as it is
\* or writes the lastChecked of the subscription of the call.
C19_ReconcileFrame ==
    [][\A th \in Threads :
          (Running(th) /\ rec'[th] # rec[th]) =>
              /\ Len(posts') >= Len(posts)
              /\ SubSeq(posts', 1, Len(posts)) = posts
              /\ \/ subs' = subs
                 \/ subs' = [subs EXCEPT ![rec[th].sub.id].lastChecked =
                                 subs'[rec[th].sub.id].lastChecked]]_vars

\* The call for subscription 1 stored a post and wrote its checkpoint; the
\* other subscriptions are as they were created.
C19_Witness ==
    /\ rec["cron"].pc = "returned"
    /\ rec["cron"].sub.id = 1
    /\ rec["cron"].count > 0
    /\ subs[1].lastChecked > 0
    /\ subs[2] = NewSub("u1", "beta", MinInterval, <<>>)
    /\ subs[3].lastChecked = 0

\* C21: a call that met a 429 of the source ends with an error that differs
\* from the error of any other failure and carries a retry-after hint, and
\* the lastChecked of its subscription is as it was when the call started.
C21_RateLimitedHint ==
    \A th \in Threads :
        (rec[th].pc = "threw" /\ rec[th].err = "RateLimited") =>
            /\ Thrown("RateLimited") # Thrown("SourceUnavailable")
            /\ subs[rec[th].sub.id].lastChecked = rec[th].lcStart
            /\ \E f \in DOMAIN Thrown(rec[th].err) :
                   f \in {"retryAfter", "rateLimit", "reset"}

\* The subscriptions of the running batch for which processSubscriptionTweets
\* was called and has ended.
Invoked == {i \in DOMAIN batch.outcome : batch.outcome[i] \in {"ok", "err"}}

\* C23: when processSubscriptionTweets is called for a subscription of a
\* batch after an earlier call of the same batch ended, with a result or
\* with an error, this.delay ran between the two.
C23_DelayBetweenCalls ==
    (cron.pc = "rec" /\ Invoked # {}) => batch.paused

RECURSIVE SumSeq(_)
SumSeq(q) == IF q = <<>> THEN 0 ELSE Head(q) + SumSeq(Tail(q))

Succeeded == {i \in DOMAIN batch.outcome : batch.outcome[i] = "ok"}

\* C28: when processAllUserSubscriptions returns, processed is the number of
\* subscriptions whose call returned, newTweets is the sum of the values
\* those calls returned, and processed plus the length of errors is the
\* number of subscriptions of the list that were due, which are those for
\* which the call was made; a subscription whose call threw is not in
\* processed.
C28_BatchTotals ==
    BatchReturning =>
        /\ batch.processed = Cardinality(Succeeded)
        /\ Len(batch.counts) = Cardinality(Succeeded)
        /\ batch.newTweets = SumSeq(batch.counts)
        /\ batch.processed + Len(batch.errors) = Cardinality(Invoked)
        /\ Invoked = {i \in DOMAIN batch.outcome : batch.outcome[i] # "notdue"}

\* Of two due subscriptions the first was reconciled and stored posts, the
\* second failed: one processed, one error.
C28_Witness ==
    /\ BatchReturning
    /\ batch.outcome = <<"ok", "err">>
    /\ batch.processed = 1
    /\ batch.newTweets > 0
    /\ Len(batch.errors) = 1

\* The posts of the target account that existed when the fetch of a call
\* was answered and were created at or after the checkpoint the call
\* started with.
Window(r) ==
    {t \in r.seen : Author(t) = r.sub.targetUsername /\ published[t] >= r.lcStart}

\* C30: when a call has returned, every post of its window that passes the
\* filters of the subscription has a row in the Post collection, however
\* many posts the window holds.
C30_WindowStored ==
    \A th \in Threads :
        rec[th].pc = "returned" =>
            \A t \in Window(rec[th]) :
                PassesFilters(rec[th].sub, t) => Rows(t) # {}

\* C24: every stored Post has isReply true exactly when the remote post has
\* a "replied_to" reference and isRetweet true exactly when it has a
\* "retweeted" reference; retweetedFrom is set exactly when isRetweet is
\* true, and then to the id of the first "retweeted" reference.
C24_ReferenceFlags ==
    \A i \in 1..Len(posts) :
        LET p == posts[i]
            refs == ReferencedTweets(p.tweetId)
        IN /\ p.isReply <=> (\E k \in DOMAIN refs : refs[k].type = "replied_to")
           /\ p.isRetweet <=> (\E k \in DOMAIN refs : refs[k].type = "retweeted")
           /\ (p.retweetedFrom # 0) <=> p.isRetweet
           /\ p.isRetweet =>
                 \E k \in DOMAIN refs :
                     /\ refs[k].type = "retweeted"
                     /\ refs[k].id = p.retweetedFrom
                     /\ \A j \in 1..(k - 1) : refs[j].type # "retweeted"

\* The collection holds a reply, a plain post and a retweet whose remote
\* post carries two "retweeted" references after a quoted one.
C24_Witness ==
    \E i, j, k \in 1..Len(posts) :
        /\ posts[i].isReply /\ ~posts[i].isRetweet
        /\ ~posts[j].isReply /\ ~posts[j].isRetweet
        /\ posts[k].isRetweet /\ Len(ReferencedTweets(posts[k].tweetId)) = 3

\* C25: when a call for a subscription has returned, every post its fetch
\* returned is in the Post collection as a row whose subscriptionId and
\* userId are those of the subscription, also when another user follows the
\* same account.
C25_StoredUnderOwnSubscription ==
    \A th \in Threads :
        rec[th].pc = "returned" =>
            \A t \in FetchedOf(rec[th]) :
                \E i \in Rows(t) :
                    /\ posts[i].subscriptionId = rec[th].sub.id
                    /\ posts[i].userId = rec[th].sub.userId

\* C26: a call of processSubscriptionTweets that has created a Post was
\* started for a subscription whose stored isActive was true at that time.
C26_NoPostForInactive ==
    \A th \in Threads : rec[th].count > 0 => rec[th].activeAtStart

\* The executions of the cron callback that have started and not ended.
SweepsInProgress ==
    (IF cron.pc \notin {"idle", "done"} THEN 1 ELSE 0)
        + (IF cron.second.started THEN 1 ELSE 0)

\* C27: at most one execution of the cron callback is in progress; a tick
\* of the scheduler during a sweep starts no second one over the same users.
C27_OneSweepAtATime ==
    \/ SweepsInProgress <= 1
    \/ \A i \in DOMAIN cron.second.users :
           \A j \in DOMAIN cron.users : cron.second.users[i] # cron.users[j]

\* A step is a mark-read request.
MarkReadStep == api'.reqs # api.reqs /\ api'.marked.req = api'.reqs

\* C29: isRead of a Post changes from false to true only: a Post is created
\* with isRead false, no step sets a true isRead to false, and a step that
\* sets it to true is a mark-read request of the user the Post belongs to
\* that names the Post; a request of another user that names it leaves it.
C29_ReadOnlyRises ==
    [][/\ \A i \in 1..Len(posts) :
             /\ i <= Len(posts')
             /\ posts[i].isRead => posts'[i].isRead
             /\ (~posts[i].isRead /\ posts'[i].isRead) =>
                    /\ MarkReadStep
                    /\ api'.marked.user = posts[i].userId
                    /\ i \in api'.marked.ids
             /\ (MarkReadStep /\ api'.marked.user # posts[i].userId) =>
                    posts'[i].isRead = posts[i].isRead
       /\ \A i \in (Len(posts) + 1)..Len(posts') : ~posts'[i].isRead]_vars

\* u1 has read the first of two posts; the last request, of u2, named both
\* posts and changed neither.
C29_Witness ==
    /\ Len(posts) = 2
    /\ posts[1].userId = "u1" /\ posts[1].isRead
    /\ posts[2].userId = "u1" /\ ~posts[2].isRead
    /\ api.marked = [user |-> "u2", ids |-> {1, 2}, req |-> api.reqs]

\* The refresh-and-summarize request has been answered after quickSummarize
\* threw.
AnsweredAfterAiFailure == api.refresh.pc = "done" /\ api.refresh.aiFailed

\* C22: when quickSummarize throws, the refresh-and-summarize request is
\* still answered with success and with the statistics of the refresh: the
\* number of subscriptions of the list, the sum of the values the calls
\* returned, and one error entry for each subscription whose call threw; the
\* posts the refresh stored are in the Post collection.
C22_SummaryFailureTolerated ==
    AnsweredAfterAiFailure =>
        LET r == api.refresh.response
            f == api.refresh
        IN /\ r.status = 200
           /\ r.success
           /\ r.stats.subscriptionsProcessed = Len(f.list)
           /\ r.stats.newTweets = SumSeq(f.counts)
           /\ r.stats.newTweets <= Len(f.stored) - f.before
           /\ Len(r.stats.errors) =
                  Cardinality({i \in DOMAIN f.outcome : f.outcome[i] = "err"})
           /\ \A i \in DOMAIN f.outcome :
                  f.outcome[i] = "err" =>
                      \E k \in DOMAIN r.stats.errors :
                          r.stats.errors[k] = f.list[i].targetUsername
           /\ Len(posts) >= Len(f.stored)
           /\ SubSeq(posts, 1, Len(f.stored)) = f.stored

\* The first subscription was refreshed and stored a post, the call for the
\* second threw, quickSummarize threw, and the answer reports success.
C22_Witness ==
    /\ AnsweredAfterAiFailure
    /\ api.refresh.outcome = <<"ok", "err">>
    /\ api.refresh.response.success
    /\ api.refresh.response.stats.newTweets > 0
    /\ Len(posts) > 0

====
